---- MODULE Spec2Model ----
(***************************************************************************)
(* Agent management platform (src/app.py, src/models.py): the five tables, *)
(* the request handlers of the REST surface, and the chat bridge.          *)
(*                                                                         *)
(* A table is the set of its rows, a row a record with the columns the     *)
(* handlers read or write.  A request body (request.get_json()) is a       *)
(* function from the keys it carries to their values, so that              *)
(* `'k' in data` is  "k" \in DOMAIN data  and data['k'] on a missing key   *)
(* is the KeyError the handler's `except Exception` turns into a 500.      *)
(* Text (a chat message, a title) is a sequence of characters.             *)
(* A handler is an operator of the current state and the request: it       *)
(* gives the (body, code) it returns and the state it leaves, every commit *)
(* it makes included.  Serving a request is one action: the state becomes  *)
(* the state the handler leaves.                                           *)
(***************************************************************************)
EXTENDS Integers, Sequences, FiniteSets, TLC

VARIABLES
    models,         \* table model
    agents,         \* table agent
    logs,           \* table agent_log
    conversations,  \* table conversation
    messages,       \* table message
    openai,         \* the module globals openai.api_base / openai.api_key
    outbound,       \* the last openai.ChatCompletion.create call, <<>> when none
    threads         \* per worker thread: where it is in the request it serves

vars ==
    <<models, agents, logs, conversations, messages, openai, outbound, threads>>

----------------------------------------------------------------------------
(* Bounds of the model and sets the inputs are drawn from.                 *)

MaxLogs == 2
MaxConversations == 1
MaxMessages == 2
MaxHistoryMessages == 22
MaxTextLen == 52
MaxPageRows == 7
MaxPage == 4
MaxPerPage == 4
MaxRaceConversations == 2
MaxRaceMessages == 4
MaxRaceLogs == 3
MaxRaceAgents == 2

ModelNames == {"m1"}
BaseUrls == {"http://u1/v1"}
ApiKeys == {"sk-1"}
AgentNames == {"A1", "A2"}
UserIds == {"u1"}
Texts == {<<"h", "i">>}
Replies == {<<"o", "k">>}
PathIds == {1, 2}
InputStatuses == {"bogus"}
Upstreams == {"ok", "APIConnectionError"}

(* Program constants.                                                      *)
HistoryLimit == 20
TitleLen == 50

AgentStatuses == {"inactive", "running", "paused", "stopped"}

(* The worker threads of the server, and a thread that serves no request.  *)
Workers == {1, 2}

Idle == [pc |-> "idle"]

----------------------------------------------------------------------------
(* Helpers of the persistence layer.                                       *)

Max(S) == CHOOSE x \in S : \A y \in S : y <= x

\* The id SQLite gives a new row of an INTEGER PRIMARY KEY table: one more
\* than the largest id in the table.
NextId(table) == IF table = {} THEN 1 ELSE Max({r.id : r \in table}) + 1

\* Query.get(id) / get_or_404(id): whether the row is there, and the row.
Has(table, id) == \E r \in table : r.id = id

Row(table, id) == CHOOSE r \in table : r.id = id

\* A NULL column, Python's None.
Null == "null"

\* Message.timestamp: datetime.utcnow at insert.  Only the order of the
\* timestamps is read, so a timestamp is its rank among the rows.
Now(table) == IF table = {} THEN 1 ELSE Max({m.timestamp : m \in table}) + 1

RECURSIVE OrderByTimestampAsc(_)
\* .order_by(Message.timestamp.asc()): the rows as a sequence, oldest first.
OrderByTimestampAsc(S) ==
    IF S = {} THEN <<>>
    ELSE LET m == CHOOSE m \in S : \A o \in S : m.timestamp <= o.timestamp
         IN  <<m>> \o OrderByTimestampAsc(S \ {m})

\* .limit(n): the first n rows of the ordered result.
Limit(seq, n) == SubSeq(seq, 1, IF Len(seq) < n THEN Len(seq) ELSE n)

\* The lookup with the wrong column compared: it finds no agent by name.
AgentsNamed_WrongColumn(name) == {a \in agents : a.status = name}

\* Agent.query.filter_by(name=name): the agents of that name.
AgentsNamed(name) == {a \in agents : a.name = name}

\* Model.query.filter_by(name=name): the models of that name.
ModelsNamed(name) == {m \in models : m.name = name}

\* A table with no UNIQUE constraint on the name.
NameTaken_Unchecked(table, row) == FALSE

\* UNIQUE(name), as the database checks it when `row` is written to `table`:
\* another row has the name.
NameTaken(table, row) == \E o \in table : o.id # row.id /\ o.name = row.name

\* The association check reading an empty relationship.
ModelAgents_Unloaded(model_id) == {}

\* model.agents, the backref of Agent.model.
ModelAgents(model_id) == {a \in agents : a.model_id = model_id}

\* agent.conversations, the backref of Conversation.agent.
AgentConversations(agent_id) == {c \in conversations : c.agent_id = agent_id}

\* Message.query.filter_by(conversation_id=...).
ConversationMessages(conversation_id) ==
    {m \in messages : m.conversation_id = conversation_id}

\* AgentLog.query.filter_by(agent_id=...).
AgentLogs(agent_id) == {l \in logs : l.agent_id = agent_id}

\* AgentLog(agent_id=..., level='info', message=...), as inserted into `table`.
NewLog(table, agent_id, message) ==
    [id |-> NextId(table), agent_id |-> agent_id, level |-> "info",
     message |-> message]

\* A to_dict that gives every column, api_key included.
ModelToDict_WithKey(m) ==
    [id |-> m.id, name |-> m.name, base_url |-> m.base_url,
     api_key |-> m.api_key, model_name |-> m.model_name]

\* Model.to_dict: every column but api_key (and the timestamps, not modelled).
ModelToDict(m) ==
    [id |-> m.id, name |-> m.name, base_url |-> m.base_url,
     model_name |-> m.model_name]

\* Agent.to_dict, with model_name read through the relationship.
AgentToDict(a) ==
    [id |-> a.id, name |-> a.name, model_id |-> a.model_id,
     model_name |-> Row(models, a.model_id).name, status |-> a.status]

\* str(e) of the NotFound that get_or_404 raises.
NotFoundText == "404 Not Found"

\* str(e) of the KeyError of data[key]: the key.
KeyErrorText(key) == key

\* str(e) of the IntegrityError of a commit that breaks a UNIQUE constraint.
IntegrityErrorText == "IntegrityError: UNIQUE constraint failed"

\* The state a handler starts from.
State ==
    [models |-> models, agents |-> agents, logs |-> logs,
     conversations |-> conversations, messages |-> messages,
     openai |-> openai, outbound |-> outbound]

\* What a handler does: the (body, code) it returns and the state it leaves.
Return(code, body, st) == [code |-> code, body |-> body, st |-> st]

\* An error return: nothing was committed, or the rollback undid it.
Fail(code, text) == Return(code, [error |-> text], State)

----------------------------------------------------------------------------
(* Model routes.                                                           *)

\* The `not data or ... not in data` check of ModelList.post.
ModelRequiredMissing(data) ==
    \/ "name" \notin DOMAIN data
    \/ "base_url" \notin DOMAIN data
    \/ "model_name" \notin DOMAIN data

ModelList_post(data) ==
    IF ModelRequiredMissing(data)
    THEN Fail(400, "Name, base_url, and model_name are required")
    ELSE IF ModelsNamed(data.name) # {}
    THEN Fail(409, "Model already exists")
    ELSE LET model == [id |-> NextId(models), name |-> data.name,
                       base_url |-> data.base_url,
                       api_key |-> IF "api_key" \in DOMAIN data
                                   THEN data.api_key ELSE Null,
                       model_name |-> data.model_name]
         IN  Return(201, ModelToDict(model),
                    [State EXCEPT !.models = models \cup {model}])

ModelResource_get(model_id) ==
    IF ~Has(models, model_id)
    THEN \* get_or_404 aborts inside the try; `except Exception` catches it
         Fail(500, NotFoundText)
    ELSE Return(200, ModelToDict(Row(models, model_id)), State)

ModelResource_delete(model_id) ==
    IF ~Has(models, model_id)
    THEN Fail(500, NotFoundText)
    ELSE IF ModelAgents(model_id) # {}
    THEN Fail(400, "Cannot delete model with associated agents")
    ELSE Return(200, [message |-> "Model deleted successfully"],
                [State EXCEPT !.models = models \ {Row(models, model_id)}])

----------------------------------------------------------------------------
(* Agent routes.                                                           *)

\* data.get('status', 'inactive')
StatusOrDefault(data) ==
    IF "status" \in DOMAIN data THEN data.status ELSE "inactive"

AgentList_post(data) ==
    IF "name" \notin DOMAIN data
    THEN Fail(400, "Name is required")
    ELSE IF AgentsNamed(data.name) # {}
    THEN Fail(409, "Agent already exists")
    ELSE IF "model_id" \notin DOMAIN data
    THEN \* data['model_id'] raises KeyError
         Fail(500, KeyErrorText("model_id"))
    ELSE IF ~Has(models, data.model_id)
    THEN Fail(404, "Model not found")
    ELSE LET agent == [id |-> NextId(agents), name |-> data.name,
                       model_id |-> data.model_id,
                       status |-> StatusOrDefault(data)]
             log == NewLog(logs, agent.id, <<"Agent registered: ", agent.name>>)
         IN  Return(201, AgentToDict(agent),
                    [State EXCEPT !.agents = agents \cup {agent},
                                  !.logs = logs \cup {log}])

AgentResource_get(agent_id) ==
    IF ~Has(agents, agent_id)
    THEN Fail(500, NotFoundText)
    ELSE Return(200, AgentToDict(Row(agents, agent_id)), State)

\* The agent row after the assignments of AgentResource.put.
Updated(agent, data) ==
    [agent EXCEPT
        !.name = IF "name" \in DOMAIN data THEN data.name ELSE @,
        !.status = IF "status" \in DOMAIN data THEN data.status ELSE @]

\* The log rows AgentResource.put adds: one when the body has a status.
StatusChangeLogs(agent, data) ==
    IF "status" \in DOMAIN data
    THEN {NewLog(logs, agent.id, <<"Agent status changed to: ", data.status>>)}
    ELSE {}

AgentResource_put(agent_id, data) ==
    IF ~Has(agents, agent_id)
    THEN Fail(500, NotFoundText)
    ELSE LET agent == Row(agents, agent_id)
             new == Updated(agent, data)
         IN  IF NameTaken(agents, new)
             THEN \* the commit breaks UNIQUE(agent.name); rollback
                  Fail(500, IntegrityErrorText)
             ELSE Return(200, AgentToDict(new),
                         [State EXCEPT
                             !.agents = (agents \ {agent}) \cup {new},
                             !.logs = logs \cup StatusChangeLogs(agent, data)])

\* The cascade with the messages forgotten.
MessagesOfAgent_NoCascade(agent_id) == {}

\* The message rows AgentResource.delete removes: those of each of the
\* agent's conversations.
MessagesOfAgent(agent_id) ==
    {m \in messages :
        \E c \in AgentConversations(agent_id) : m.conversation_id = c.id}

AgentResource_delete(agent_id) ==
    IF ~Has(agents, agent_id)
    THEN Fail(500, NotFoundText)
    ELSE Return(200, [message |-> "Agent deleted successfully"],
                [State EXCEPT
                    !.messages = messages \ MessagesOfAgent(agent_id),
                    !.conversations =
                        conversations \ AgentConversations(agent_id),
                    !.logs = logs \ AgentLogs(agent_id),
                    !.agents = agents \ {Row(agents, agent_id)}])

\* A status route that sets the status and writes no log row.
SetStatus_NoLog(agent_id, status, message) ==
    IF ~Has(agents, agent_id)
    THEN Fail(500, NotFoundText)
    ELSE LET agent == Row(agents, agent_id)
             new == [agent EXCEPT !.status = status]
         IN  Return(200, AgentToDict(new),
                    [State EXCEPT !.agents = (agents \ {agent}) \cup {new}])

\* The body AgentStart.post, AgentPause.post and AgentStop.post share: the
\* status each sets and the log message it writes.
SetStatus(agent_id, status, message) ==
    IF ~Has(agents, agent_id)
    THEN Fail(500, NotFoundText)
    ELSE LET agent == Row(agents, agent_id)
             new == [agent EXCEPT !.status = status]
         IN  Return(200, AgentToDict(new),
                    [State EXCEPT
                        !.agents = (agents \ {agent}) \cup {new},
                        !.logs = logs \cup
                                 {NewLog(logs, agent.id, message)}])

AgentStart_post(agent_id) == SetStatus(agent_id, "running", <<"Agent started">>)

AgentPause_post(agent_id) == SetStatus(agent_id, "paused", <<"Agent paused">>)

AgentStop_post(agent_id) == SetStatus(agent_id, "stopped", <<"Agent stopped">>)

AgentLogs_get(agent_id) ==
    IF ~Has(agents, agent_id)
    THEN Fail(500, NotFoundText)
    ELSE Return(200, [total |-> Cardinality(AgentLogs(agent_id))], State)

----------------------------------------------------------------------------
(* Conversations and the chat bridge.                                      *)

ConversationResource_delete(conversation_id) ==
    IF ~Has(conversations, conversation_id)
    THEN Fail(500, NotFoundText)
    ELSE Return(200, [message |-> "Conversation deleted successfully"],
                [State EXCEPT
                    !.messages =
                        messages \ ConversationMessages(conversation_id),
                    !.conversations =
                        conversations \ {Row(conversations, conversation_id)}])

\* s[:n]
Prefix(s, n) == SubSeq(s, 1, IF Len(s) < n THEN Len(s) ELSE n)

\* The title cut at 50 characters with no ellipsis added.
Title_Truncated(user_message) == Prefix(user_message, TitleLen)

\* user_message[:50] + '...' if len(user_message) > 50 else user_message
Title(user_message) ==
    IF Len(user_message) > TitleLen
    THEN Prefix(user_message, TitleLen) \o <<".", ".", ".">>
    ELSE user_message

\* A body that carries user_id and message.
WellFormedChat(data) == "user_id" \in DOMAIN data /\ "message" \in DOMAIN data

\* `if conversation_id:` of the body's optional conversation_id.
ConversationGiven(data) ==
    "conversation_id" \in DOMAIN data /\ data.conversation_id # 0

\* The check with the ownership test left out.
ConversationOfAgent_AnyAgent(conversation_id, agent_id) ==
    Has(conversations, conversation_id)

\* The negation of `not conversation or conversation.agent_id != agent_id`.
ConversationOfAgent(conversation_id, agent_id) ==
    /\ Has(conversations, conversation_id)
    /\ Row(conversations, conversation_id).agent_id = agent_id

\* Message.query.filter_by(conversation_id=...).order_by(timestamp.asc())
\* .limit(20), read from the message table `table`.
HistoryMessages(table, conversation_id) ==
    Limit(OrderByTimestampAsc(
              {m \in table : m.conversation_id = conversation_id}),
          HistoryLimit)

\* The `messages` list built from the history rows.
PromptOf(history) ==
    [i \in 1..Len(history) |->
        [role |-> history[i].role, content |-> history[i].content]]

\* model.api_key or 'ollama'
KeyOrPlaceholder(api_key) ==
    IF api_key = Null \/ api_key = "" THEN "ollama" ELSE api_key

\* Message(conversation_id=..., role=..., content=...), as inserted into
\* the message table `table`.
NewMessage(table, conversation_id, role, content) ==
    [id |-> NextId(table), conversation_id |-> conversation_id,
     role |-> role, content |-> content, timestamp |-> Now(table)]

\* The reply returned to the client and not saved.
AssistantMessages_NotSaved(table, conversation_id, reply) == {}

\* The assistant rows the handler commits once the completion call has
\* returned `reply`.
AssistantMessages(table, conversation_id, reply) ==
    {NewMessage(table, conversation_id, "assistant", reply)}

\* A failure that undoes the whole call.
AfterRollback_Atomic(st) == State

\* db.session.rollback() of the except block, in the state `st` the commits
\* made so far have left: nothing is pending, nothing is undone.
AfterRollback(st) == st

\* upstream: what the completion call does, "ok" (it returns `reply`) or the
\* exception it raises.
AgentChat_post(agent_id, data, upstream, reply) ==
    IF ~Has(agents, agent_id)
    THEN Fail(500, NotFoundText)
    ELSE IF "user_id" \notin DOMAIN data
    THEN Fail(500, KeyErrorText("user_id"))
    ELSE IF "message" \notin DOMAIN data
    THEN Fail(500, KeyErrorText("message"))
    ELSE IF /\ ConversationGiven(data)
            /\ ~ConversationOfAgent(data.conversation_id, agent_id)
    THEN Fail(404, "Conversation not found or does not belong to this agent")
    ELSE LET agent == Row(agents, agent_id)
             model == Row(models, agent.model_id)
             conversation ==
                 IF ConversationGiven(data)
                 THEN Row(conversations, data.conversation_id)
                 ELSE [id |-> NextId(conversations), agent_id |-> agent_id,
                       user_id |-> data.user_id,
                       title |-> Title(data.message)]
             user_msg ==
                 NewMessage(messages, conversation.id, "user", data.message)
             committed == messages \cup {user_msg}
             history == HistoryMessages(committed, conversation.id)
             globals == [api_base |-> model.base_url,
                         api_key |-> KeyOrPlaceholder(model.api_key)]
             called ==
                 [State EXCEPT
                     !.conversations = conversations \cup {conversation},
                     !.messages = committed,
                     !.openai = globals,
                     !.outbound = [api_base |-> globals.api_base,
                                   api_key |-> globals.api_key,
                                   model |-> model.model_name,
                                   messages |-> PromptOf(history)]]
             log == NewLog(logs, agent.id,
                           <<"Chat with user ", data.user_id, ": ",
                             Prefix(data.message, TitleLen), "...">>)
         IN  IF upstream = "ok"
             THEN Return(200, [conversation_id |-> conversation.id,
                               response |-> reply],
                         [called EXCEPT
                             !.messages = committed \cup
                                 AssistantMessages(committed, conversation.id,
                                                   reply),
                             !.logs = logs \cup {log}])
             ELSE \* the call raises
                  Return(500, [error |-> upstream], AfterRollback(called))

----------------------------------------------------------------------------
(* The list routes and their pagination envelope.                          *)

\* math.ceil(a / b) of a >= 0 and b >= 1.
Ceil(a, b) == (a + b - 1) \div b

\* Query.paginate(page=page, per_page=per_page, error_out=False) over the
\* rows of `table`: the Pagination object, with its total, pages, has_prev
\* and has_next properties (the items are not modelled).
Paginate(table, page, per_page) ==
    LET total == Cardinality(table)
        pages == IF per_page = 0 THEN 0 ELSE Ceil(total, per_page)
    IN  [total |-> total, page |-> page, per_page |-> per_page,
         pages |-> pages, has_prev |-> page > 1, has_next |-> page < pages]

\* The envelope with has_next and has_prev taken from each other.
PaginationOf_Swapped(p) ==
    [total |-> p.total, pages |-> p.pages, current_page |-> p.page,
     has_next |-> p.has_prev, has_prev |-> p.has_next]

\* The 'pagination' object of a list response.
PaginationOf(p) ==
    [total |-> p.total, pages |-> p.pages, current_page |-> p.page,
     has_next |-> p.has_next, has_prev |-> p.has_prev]

\* The fields of the pagination_model the agent and log lists answer with.
PaginationFields == {"total", "pages", "current_page", "has_next", "has_prev"}

\* marshal_with(agents_response_model / logs_response_model), the
\* 'pagination' part: the fields of that pagination_model, each taken from
\* the object the handler returned.
MarshalPagination(body) ==
    [k \in PaginationFields |-> IF k \in DOMAIN body THEN body[k] ELSE Null]

\* request.args.get('page', 1, type=int)
PageOf(args) == IF "page" \in DOMAIN args THEN args.page ELSE 1

\* request.args.get('per_page', default, type=int)
PerPageOf(args, default) ==
    IF "per_page" \in DOMAIN args THEN args.per_page ELSE default

AgentList_get(args) ==
    Return(200,
           [pagination |->
               PaginationOf(Paginate(agents, PageOf(args), PerPageOf(args, 10)))],
           State)

AllLogs_get(args) ==
    Return(200,
           [pagination |->
               PaginationOf(Paginate(logs, PageOf(args), PerPageOf(args, 20)))],
           State)

RECURSIVE OrderById(_)
\* The rows of a query with no order_by, as SQLite returns them: by rowid.
OrderById(S) ==
    IF S = {} THEN <<>>
    ELSE LET r == CHOOSE r \in S : \A o \in S : r.id <= o.id
         IN  <<r>> \o OrderById(S \ {r})

\* Pagination.items: the rows of page `page`.
Items(table, page, per_page) ==
    LET rows == OrderById(table)
        first == (page - 1) * per_page + 1
        last == IF page * per_page < Len(rows) THEN page * per_page
                ELSE Len(rows)
    IN  SubSeq(rows, first, last)

ModelList_get(args) ==
    LET items == Items(models, PageOf(args), PerPageOf(args, 10))
    IN  Return(200,
               [models |-> [i \in 1..Len(items) |-> ModelToDict(items[i])],
                pagination |->
                    PaginationOf(Paginate(models, PageOf(args),
                                          PerPageOf(args, 10)))],
               State)

\* The model row after the assignments of ModelResource.put.
UpdatedModel(model, data) ==
    [model EXCEPT
        !.name = IF "name" \in DOMAIN data THEN data.name ELSE @,
        !.base_url = IF "base_url" \in DOMAIN data THEN data.base_url ELSE @,
        !.api_key = IF "api_key" \in DOMAIN data THEN data.api_key ELSE @]

ModelResource_put(model_id, data) ==
    IF ~Has(models, model_id)
    THEN Fail(500, NotFoundText)
    ELSE LET model == Row(models, model_id)
             new == UpdatedModel(model, data)
         IN  IF NameTaken(models, new)
             THEN \* the commit breaks UNIQUE(model.name); rollback
                  Fail(500, IntegrityErrorText)
             ELSE Return(200, ModelToDict(new),
                         [State EXCEPT !.models = (models \ {model}) \cup {new}])

\* The fields of model_model among the columns modelled.
ModelFields == {"id", "name", "base_url", "api_key", "model_name"}

\* marshal_with(model_model): the fields of the model, each taken from the
\* body the handler returned, null where the body has no such key.
MarshalModel(body) ==
    [k \in ModelFields |-> IF k \in DOMAIN body THEN body[k] ELSE Null]

\* marshal_with(models_response_model): the models marshalled one by one,
\* and the fields page, per_page, total and pages of the first
\* pagination_model.
MarshalModels(body) ==
    [models |-> [i \in DOMAIN body.models |-> MarshalModel(body.models[i])],
     pagination |-> [page |-> Null, per_page |-> Null,
                     total |-> body.pagination.total,
                     pages |-> body.pagination.pages]]

----------------------------------------------------------------------------
(* The request bodies the clients send.                                    *)

ModelDatas ==
    {[name |-> n, base_url |-> u, model_name |-> "llama3"] :
        n \in ModelNames, u \in BaseUrls}
    \cup {[name |-> n] : n \in ModelNames}
    \cup {<<>>}

\* The same, with an api_key.
KeyedModelDatas ==
    {[name |-> n, base_url |-> u, model_name |-> "llama3", api_key |-> k] :
        n \in ModelNames, u \in BaseUrls, k \in ApiKeys}

AgentDatas ==
    {[name |-> n] : n \in AgentNames}
    \cup {[name |-> n, model_id |-> m] : n \in AgentNames, m \in PathIds}
    \cup {[name |-> n, model_id |-> 1, status |-> s] :
        n \in AgentNames, s \in InputStatuses}
    \cup {<<>>}

AgentUpdates ==
    {<<>>}
    \cup {[name |-> n] : n \in AgentNames}
    \cup {[status |-> s] : s \in InputStatuses}
    \cup {[name |-> n, status |-> s] : n \in AgentNames, s \in InputStatuses}

ChatDatas ==
    {[user_id |-> u, message |-> t] : u \in UserIds, t \in Texts}
    \cup {[user_id |-> u, message |-> t, conversation_id |-> c] :
        u \in UserIds, t \in Texts, c \in PathIds \cup {0}}
    \cup {[user_id |-> u] : u \in UserIds}
    \cup {[message |-> t] : t \in Texts}

----------------------------------------------------------------------------
(* The system: an empty database, then one request after another.          *)

Init ==
    /\ models = {}
    /\ agents = {}
    /\ logs = {}
    /\ conversations = {}
    /\ messages = {}
    /\ openai = [api_base |-> "https://api.openai.com/v1", api_key |-> Null]
    /\ outbound = <<>>
    /\ threads = [w \in Workers |-> Idle]

\* The state stays within the bounds of the model.
Fits(st, maxMessages) ==
    /\ Cardinality(st.logs) <= MaxLogs
    /\ Cardinality(st.conversations) <= MaxConversations
    /\ Cardinality(st.messages) <= maxMessages

\* The handler runs: the state becomes the state it leaves.
Becomes(st) ==
    /\ models' = st.models
    /\ agents' = st.agents
    /\ logs' = st.logs
    /\ conversations' = st.conversations
    /\ messages' = st.messages
    /\ openai' = st.openai
    /\ outbound' = st.outbound
    /\ UNCHANGED threads

Serve(result) == Fits(result.st, MaxMessages) /\ Becomes(result.st)

Next ==
    \/ \E data \in ModelDatas : Serve(ModelList_post(data))
    \/ \E id \in PathIds : Serve(ModelResource_get(id))
    \/ \E id \in PathIds : Serve(ModelResource_delete(id))
    \/ \E data \in AgentDatas : Serve(AgentList_post(data))
    \/ \E id \in PathIds : Serve(AgentResource_get(id))
    \/ \E id \in PathIds, data \in AgentUpdates :
           Serve(AgentResource_put(id, data))
    \/ \E id \in PathIds : Serve(AgentResource_delete(id))
    \/ \E id \in PathIds : Serve(AgentStart_post(id))
    \/ \E id \in PathIds : Serve(AgentPause_post(id))
    \/ \E id \in PathIds : Serve(AgentStop_post(id))
    \/ \E id \in PathIds : Serve(AgentLogs_get(id))
    \/ \E id \in PathIds, data \in ChatDatas, up \in Upstreams, reply \in Replies :
           Serve(AgentChat_post(id, data, up, reply))
    \/ \E id \in PathIds : Serve(ConversationResource_delete(id))

Spec == Init /\ [][Next]_vars

----------------------------------------------------------------------------
(* Long conversations: one keyed model, one agent, and chat calls that     *)
(* start a conversation and carry it on past the history limit.            *)

FitsHistory(st) ==
    /\ Cardinality(st.conversations) <= 1
    /\ Cardinality(st.messages) <= MaxHistoryMessages

ServeHistory(result) == FitsHistory(result.st) /\ Becomes(result.st)

HistoryChatDatas ==
    {[user_id |-> u, message |-> t] : u \in UserIds, t \in Texts}
    \cup {[user_id |-> u, message |-> t, conversation_id |-> 1] :
        u \in UserIds, t \in Texts}

NextHistory ==
    \/ \E data \in KeyedModelDatas : ServeHistory(ModelList_post(data))
    \/ \E data \in {d \in AgentDatas : d = [name |-> "A1", model_id |-> 1]} :
           ServeHistory(AgentList_post(data))
    \/ \E data \in HistoryChatDatas, up \in Upstreams, reply \in Replies :
           ServeHistory(AgentChat_post(1, data, up, reply))

SpecHistory == Init /\ [][NextHistory]_vars

----------------------------------------------------------------------------
(* Titles: one agent, and chat calls that start a conversation with a      *)
(* message of every length up to MaxTextLen.                               *)

\* The messages of n characters: all "a", or ending in "b".
LongTexts ==
    {[i \in 1..n |-> "a"] : n \in 0..MaxTextLen}
    \cup {[i \in 1..n |-> IF i = n THEN "b" ELSE "a"] : n \in 1..MaxTextLen}

TitleChatDatas ==
    {[user_id |-> u, message |-> t] : u \in UserIds, t \in LongTexts}

\* One conversation at a time is enough to see every title.
FitsTitle(st) == Cardinality(st.conversations) <= 1

ServeTitle(result) == FitsTitle(result.st) /\ Becomes(result.st)

NextTitle ==
    \/ \E data \in KeyedModelDatas : ServeTitle(ModelList_post(data))
    \/ \E data \in {d \in AgentDatas : d = [name |-> "A1", model_id |-> 1]} :
           ServeTitle(AgentList_post(data))
    \/ \E data \in TitleChatDatas, up \in Upstreams, reply \in Replies :
           ServeTitle(AgentChat_post(1, data, up, reply))

SpecTitle == Init /\ [][NextTitle]_vars

----------------------------------------------------------------------------
(* Lists: two agents whose start requests fill the log table, and the list *)
(* routes read with every page and page size of the bounds.                *)

\* The query strings ?page=..&per_page=.., each parameter optional.
PageArgs ==
    {<<>>}
    \cup {[page |-> p] : p \in 1..MaxPage}
    \cup {[per_page |-> n] : n \in 1..MaxPerPage}
    \cup {[page |-> p, per_page |-> n] : p \in 1..MaxPage, n \in 1..MaxPerPage}

FitsPages(st) == Cardinality(st.logs) <= MaxPageRows

ServePages(result) == FitsPages(result.st) /\ Becomes(result.st)

NextPages ==
    \/ \E data \in KeyedModelDatas : ServePages(ModelList_post(data))
    \/ \E data \in {d \in AgentDatas : DOMAIN d = {"name", "model_id"}} :
           ServePages(AgentList_post(data))
    \/ \E id \in PathIds : ServePages(AgentStart_post(id))
    \/ \E args \in PageArgs : ServePages(AgentList_get(args))
    \/ \E args \in PageArgs : ServePages(AllLogs_get(args))

SpecPages == Init /\ [][NextPages]_vars

----------------------------------------------------------------------------
(* The model catalogue: two names, keys set and changed, every model route. *)

CatalogueNames == {"m1", "m2"}
CatalogueUrls == {"http://u1/v1", "http://u2/v1"}
CatalogueKeys == {Null, "", "sk-1", "sk-2"}

CatalogueDatas ==
    {[name |-> n, base_url |-> u, model_name |-> "llama3", api_key |-> k] :
        n \in CatalogueNames, u \in CatalogueUrls, k \in CatalogueKeys \ {Null}}
    \cup {[name |-> n, base_url |-> u, model_name |-> "llama3"] :
        n \in CatalogueNames, u \in CatalogueUrls}
    \cup {[name |-> n] : n \in CatalogueNames}

ModelUpdates ==
    {<<>>}
    \cup {[api_key |-> k] : k \in CatalogueKeys}
    \cup {[name |-> n] : n \in CatalogueNames}
    \cup {[name |-> n, api_key |-> k] :
        n \in CatalogueNames, k \in CatalogueKeys}

NextModels ==
    \/ \E data \in CatalogueDatas : Becomes(ModelList_post(data).st)
    \/ \E args \in PageArgs : Becomes(ModelList_get(args).st)
    \/ \E id \in PathIds : Becomes(ModelResource_get(id).st)
    \/ \E id \in PathIds, data \in ModelUpdates :
           Becomes(ModelResource_put(id, data).st)
    \/ \E id \in PathIds : Becomes(ModelResource_delete(id).st)

SpecModels == Init /\ [][NextModels]_vars

----------------------------------------------------------------------------
(* Requests served at the same time.  Each worker thread serves one        *)
(* request with a database session of its own; what it has read and not    *)
(* yet written is in its entry of `threads`.  A request that writes is     *)
(* taken in steps, one for the reads before its first write and one for    *)
(* each commit, and the steps of the workers interleave.  A commit is      *)
(* checked by the database against the rows present at that moment: the    *)
(* UNIQUE constraints are enforced, foreign keys are not (SQLite, the      *)
(* default database, leaves them off).                                     *)

\* The worker goes on with the request, at `entry`.
Goto(w, entry) == threads' = [threads EXCEPT ![w] = entry]

\* The worker returns its response and is free again.
Respond(w) == Goto(w, Idle)

\* AgentList.post up to its first write: the name, the duplicate and the
\* model checks pass on the rows read now.
AgentList_post_begin(w, data) ==
    /\ threads[w].pc = "idle"
    /\ AgentList_post(data).code = 201
    /\ Goto(w, [pc |-> "agent_commit", data |-> data])
    /\ UNCHANGED <<models, agents, logs, conversations, messages, openai,
                   outbound>>

\* db.session.add(agent); db.session.commit(), then agent.to_dict() of the
\* debug line, which reads agent.model.
AgentList_post_commit_agent(w) ==
    /\ threads[w].pc = "agent_commit"
    /\ LET data == threads[w].data
           agent == [id |-> NextId(agents), name |-> data.name,
                     model_id |-> data.model_id,
                     status |-> StatusOrDefault(data)]
       IN  IF NameTaken(agents, agent)
           THEN \* IntegrityError: rollback, 500
                /\ Respond(w)
                /\ UNCHANGED agents
           ELSE /\ agents' = agents \cup {agent}
                /\ IF Has(models, agent.model_id)
                   THEN Goto(w, [pc |-> "log_commit", agent_id |-> agent.id,
                                 name |-> agent.name])
                   ELSE \* agent.model is None: to_dict raises, 500
                        Respond(w)
    /\ UNCHANGED <<models, logs, conversations, messages, openai, outbound>>

\* db.session.add(log); db.session.commit(), and the response.
AgentList_post_commit_log(w) ==
    /\ threads[w].pc = "log_commit"
    /\ logs' = logs \cup {NewLog(logs, threads[w].agent_id,
                                 <<"Agent registered: ", threads[w].name>>)}
    /\ Respond(w)
    /\ UNCHANGED <<models, agents, conversations, messages, openai, outbound>>

\* AgentResource.put up to its commit: the agent row is read, and the
\* assignments are made on the session's copy of it.
AgentResource_put_begin(w, agent_id, data) ==
    /\ threads[w].pc = "idle"
    /\ Has(agents, agent_id)
    /\ Goto(w, [pc |-> "put_commit", agent |-> Row(agents, agent_id),
                data |-> data])
    /\ UNCHANGED <<models, agents, logs, conversations, messages, openai,
                   outbound>>

\* The columns the flush writes: those whose assigned value differs from
\* the one read.
Dirty(row, data) == {k \in DOMAIN data : data[k] # row[k]}

\* db.session.commit() of AgentResource.put: the UPDATE of the dirty columns
\* and the INSERT of the log row, together or not at all.
AgentResource_put_commit(w) ==
    /\ threads[w].pc = "put_commit"
    /\ LET read == threads[w].agent
           data == threads[w].data
           dirty == Dirty(read, data)
       IN  IF dirty = {}
           THEN /\ logs' = logs \cup StatusChangeLogs(read, data)
                /\ UNCHANGED agents
           ELSE IF ~Has(agents, read.id)
           THEN \* StaleDataError: the UPDATE matches no row; rollback, 500
                UNCHANGED <<agents, logs>>
           ELSE LET row == Row(agents, read.id)
                    new == [k \in DOMAIN row |->
                               IF k \in dirty THEN data[k] ELSE row[k]]
                IN  IF NameTaken(agents, new)
                    THEN \* IntegrityError: rollback, 500
                         UNCHANGED <<agents, logs>>
                    ELSE /\ agents' = (agents \ {row}) \cup {new}
                         /\ logs' = logs \cup StatusChangeLogs(read, data)
    /\ Respond(w)
    /\ UNCHANGED <<models, conversations, messages, openai, outbound>>

\* ModelResource.delete up to its write: the model is there and no agent
\* row read now refers to it.
ModelResource_delete_begin(w, model_id) ==
    /\ threads[w].pc = "idle"
    /\ Has(models, model_id)
    /\ ModelAgents(model_id) = {}
    /\ Goto(w, [pc |-> "model_delete", model_id |-> model_id])
    /\ UNCHANGED <<models, agents, logs, conversations, messages, openai,
                   outbound>>

\* db.session.delete(model); db.session.commit()
ModelResource_delete_commit(w) ==
    /\ threads[w].pc = "model_delete"
    /\ models' = {m \in models : m.id # threads[w].model_id}
    /\ Respond(w)
    /\ UNCHANGED <<agents, logs, conversations, messages, openai, outbound>>

\* AgentResource.delete up to its first write: the agent and its
\* conversations are read.
AgentResource_delete_begin(w, agent_id) ==
    /\ threads[w].pc = "idle"
    /\ Has(agents, agent_id)
    /\ Goto(w, [pc |-> "agent_delete", agent_id |-> agent_id,
                conversation_ids |->
                    {c.id : c \in AgentConversations(agent_id)}])
    /\ UNCHANGED <<models, agents, logs, conversations, messages, openai,
                   outbound>>

\* The deletes of AgentResource.delete and their commit: the messages of
\* the conversations read, those conversations, the logs of the agent, the
\* agent.
AgentResource_delete_commit(w) ==
    /\ threads[w].pc = "agent_delete"
    /\ LET read == threads[w].conversation_ids
       IN  /\ messages' = {m \in messages : m.conversation_id \notin read}
           /\ conversations' = {c \in conversations : c.id \notin read}
    /\ logs' = logs \ AgentLogs(threads[w].agent_id)
    /\ agents' = {a \in agents : a.id # threads[w].agent_id}
    /\ Respond(w)
    /\ UNCHANGED <<models, openai, outbound>>

\* ConversationResource.delete up to its first write.
ConversationResource_delete_begin(w, conversation_id) ==
    /\ threads[w].pc = "idle"
    /\ Has(conversations, conversation_id)
    /\ Goto(w, [pc |-> "conversation_delete",
                conversation_id |-> conversation_id])
    /\ UNCHANGED <<models, agents, logs, conversations, messages, openai,
                   outbound>>

\* The deletes of ConversationResource.delete and their commit.
ConversationResource_delete_commit(w) ==
    /\ threads[w].pc = "conversation_delete"
    /\ messages' = messages \ ConversationMessages(threads[w].conversation_id)
    /\ conversations' =
           {c \in conversations : c.id # threads[w].conversation_id}
    /\ Respond(w)
    /\ UNCHANGED <<models, agents, logs, openai, outbound>>

\* AgentChat.post up to its first write: the agent, the body's keys and,
\* when the body names a conversation, that conversation are read.
AgentChat_post_begin(w, agent_id, data) ==
    /\ threads[w].pc = "idle"
    /\ Has(agents, agent_id)
    /\ WellFormedChat(data)
    /\ ConversationGiven(data) =>
           ConversationOfAgent(data.conversation_id, agent_id)
    /\ Goto(w, [pc |-> IF ConversationGiven(data) THEN "user_commit"
                       ELSE "conversation_commit",
                agent_id |-> agent_id,
                model_id |-> Row(agents, agent_id).model_id,
                data |-> data,
                conversation_id |-> IF ConversationGiven(data)
                                    THEN data.conversation_id ELSE 0,
                created |-> FALSE])
    /\ UNCHANGED <<models, agents, logs, conversations, messages, openai,
                   outbound>>

\* db.session.add(conversation); db.session.commit()
AgentChat_post_commit_conversation(w) ==
    /\ threads[w].pc = "conversation_commit"
    /\ LET t == threads[w]
           conversation ==
               [id |-> NextId(conversations), agent_id |-> t.agent_id,
                user_id |-> t.data.user_id, title |-> Title(t.data.message)]
       IN  /\ conversations' = conversations \cup {conversation}
           /\ Goto(w, [t EXCEPT !.pc = "user_commit",
                                !.conversation_id = conversation.id,
                                !.created = TRUE])
    /\ UNCHANGED <<models, agents, logs, messages, openai, outbound>>

\* The user message is committed; then the history query is built, the
\* module globals openai.api_base and openai.api_key are set from the model
\* row, and the messages list is filled from the history.  Reading a row
\* this session has committed or reloaded, and another request has deleted
\* since, raises and ends the request with 500.
AgentChat_post_commit_user(w) ==
    /\ threads[w].pc = "user_commit"
    /\ LET t == threads[w]
           user_msg == NewMessage(messages, t.conversation_id, "user",
                                  t.data.message)
           committed == messages \cup {user_msg}
       IN  IF t.created /\ ~Has(conversations, t.conversation_id)
           THEN \* conversation.id of the row just committed: it is gone
                /\ Respond(w)
                /\ UNCHANGED <<messages, openai>>
           ELSE /\ messages' = committed
                /\ IF /\ Has(conversations, t.conversation_id)
                      /\ Has(models, t.model_id)
                   THEN LET model == Row(models, t.model_id)
                        IN  /\ openai' =
                                   [api_base |-> model.base_url,
                                    api_key |-> KeyOrPlaceholder(model.api_key)]
                            /\ Goto(w, [pc |-> "call",
                                        agent_id |-> t.agent_id,
                                        model_id |-> t.model_id,
                                        data |-> t.data,
                                        conversation_id |-> t.conversation_id,
                                        model_name |-> model.model_name,
                                        prompt |-> PromptOf(HistoryMessages(
                                            committed, t.conversation_id))])
                   ELSE /\ Respond(w)
                        /\ UNCHANGED openai
    /\ UNCHANGED <<models, agents, logs, conversations, outbound>>

\* openai.ChatCompletion.create(...): the request goes out with the
\* api_base and api_key the module globals hold at this moment.
AgentChat_post_call(w, upstream, reply) ==
    /\ threads[w].pc = "call"
    /\ LET t == threads[w]
       IN  /\ outbound' = [api_base |-> openai.api_base,
                           api_key |-> openai.api_key,
                           model |-> t.model_name,
                           messages |-> t.prompt]
           /\ IF upstream = "ok"
              THEN Goto(w, [pc |-> "assistant_commit",
                            agent_id |-> t.agent_id, data |-> t.data,
                            conversation_id |-> t.conversation_id,
                            reply |-> reply])
              ELSE Respond(w)
    /\ UNCHANGED <<models, agents, logs, conversations, messages, openai>>

\* db.session.add(assistant_msg); db.session.commit()
AgentChat_post_commit_assistant(w) ==
    /\ threads[w].pc = "assistant_commit"
    /\ LET t == threads[w]
       IN  IF ~Has(conversations, t.conversation_id)
           THEN \* conversation.id: the row is gone
                /\ Respond(w)
                /\ UNCHANGED messages
           ELSE /\ messages' = messages \cup
                       AssistantMessages(messages, t.conversation_id, t.reply)
                /\ Goto(w, [pc |-> "chat_log_commit",
                            agent_id |-> t.agent_id, data |-> t.data])
    /\ UNCHANGED <<models, agents, logs, conversations, openai, outbound>>

\* db.session.add(log); db.session.commit(), and the response.
AgentChat_post_commit_log(w) ==
    /\ threads[w].pc = "chat_log_commit"
    /\ LET t == threads[w]
       IN  IF ~Has(agents, t.agent_id)
           THEN \* agent.id: the row is gone
                UNCHANGED logs
           ELSE logs' = logs \cup
                    {NewLog(logs, t.agent_id,
                            <<"Chat with user ", t.data.user_id, ": ",
                              Prefix(t.data.message, TitleLen), "...">>)}
    /\ Respond(w)
    /\ UNCHANGED <<models, agents, conversations, messages, openai, outbound>>

(* Names: agents created and renamed by two workers at once.               *)

RaceNames == {"A1", "A2", "A3"}

NextNames ==
    \/ \E data \in ModelDatas : Becomes(ModelList_post(data).st)
    \/ \E w \in Workers, n \in RaceNames :
           AgentList_post_begin(w, [name |-> n, model_id |-> 1])
    \/ \E w \in Workers : AgentList_post_commit_agent(w)
    \/ \E w \in Workers : AgentList_post_commit_log(w)
    \/ \E w \in Workers, id \in PathIds, n \in RaceNames :
           AgentResource_put_begin(w, id, [name |-> n])
    \/ \E w \in Workers : AgentResource_put_commit(w)

SpecNames == Init /\ [][NextNames]_vars

(* Chats: two models with different endpoints and keys, an agent on each,  *)
(* and chat calls served by two workers at once.                           *)

RaceModelDatas ==
    {[name |-> "m1", base_url |-> "http://u1/v1", model_name |-> "llama3",
      api_key |-> "sk-1"],
     [name |-> "m2", base_url |-> "http://u2/v1", model_name |-> "gpt-4",
      api_key |-> "sk-2"]}

RaceAgentDatas ==
    {[name |-> "A1", model_id |-> 1], [name |-> "A2", model_id |-> 2]}

RaceChatDatas ==
    {[user_id |-> u, message |-> t] : u \in UserIds, t \in Texts}
    \cup {[user_id |-> u, message |-> t, conversation_id |-> 1] :
        u \in UserIds, t \in Texts}

\* The workers that are serving a chat call.
Chatting ==
    {w \in Workers :
        threads[w].pc \in {"conversation_commit", "user_commit", "call",
                           "assistant_commit", "chat_log_commit"}}

\* The rows a table has been given so far: ids are not reused while a
\* later row is there.
Used(table) == NextId(table) - 1

\* One more chat call fits the bounds, whatever the calls in progress add.
RoomForChat(data) ==
    /\ Used(messages) + 2 * Cardinality(Chatting) + 2 <= MaxRaceMessages
    /\ ConversationGiven(data)
       \/ Used(conversations) + Cardinality(Chatting) + 1
              <= MaxRaceConversations

NextChats ==
    \/ \E data \in RaceModelDatas : Becomes(ModelList_post(data).st)
    \/ \E data \in RaceAgentDatas : Becomes(AgentList_post(data).st)
    \/ \E w \in Workers, id \in PathIds, data \in RaceChatDatas :
           RoomForChat(data) /\ AgentChat_post_begin(w, id, data)
    \/ \E w \in Workers : AgentChat_post_commit_conversation(w)
    \/ \E w \in Workers : AgentChat_post_commit_user(w)
    \/ \E w \in Workers, up \in Upstreams, reply \in Replies :
           AgentChat_post_call(w, up, reply)
    \/ \E w \in Workers : AgentChat_post_commit_assistant(w)
    \/ \E w \in Workers : AgentChat_post_commit_log(w)

SpecChats == Init /\ [][NextChats]_vars

(* Integrity: rows created and deleted by two workers at once.             *)

\* The workers that are serving a request.
Busy == {w \in Workers : threads[w].pc # "idle"}

\* One more log row, and one more agent row, fit the bounds, whatever the
\* requests in progress add.
RoomForLog == Used(logs) + Cardinality(Busy) + 1 <= MaxRaceLogs

RoomForAgent == Used(agents) + Cardinality(Busy) + 1 <= MaxRaceAgents

NextIntegrity ==
    \/ \E data \in ModelDatas : Becomes(ModelList_post(data).st)
    \/ \E w \in Workers, id \in PathIds : ModelResource_delete_begin(w, id)
    \/ \E w \in Workers : ModelResource_delete_commit(w)
    \/ \E w \in Workers, n \in {"A1"} :
           /\ RoomForLog /\ RoomForAgent
           /\ AgentList_post_begin(w, [name |-> n, model_id |-> 1])
    \/ \E w \in Workers : AgentList_post_commit_agent(w)
    \/ \E w \in Workers : AgentList_post_commit_log(w)
    \/ \E w \in Workers, id \in PathIds : AgentResource_delete_begin(w, id)
    \/ \E w \in Workers : AgentResource_delete_commit(w)
    \/ \E w \in Workers, id \in PathIds, data \in RaceChatDatas :
           RoomForLog /\ RoomForChat(data) /\ AgentChat_post_begin(w, id, data)
    \/ \E w \in Workers : AgentChat_post_commit_conversation(w)
    \/ \E w \in Workers : AgentChat_post_commit_user(w)
    \/ \E w \in Workers, up \in Upstreams, reply \in Replies :
           AgentChat_post_call(w, up, reply)
    \/ \E w \in Workers : AgentChat_post_commit_assistant(w)
    \/ \E w \in Workers : AgentChat_post_commit_log(w)
    \/ \E w \in Workers, id \in PathIds :
           ConversationResource_delete_begin(w, id)
    \/ \E w \in Workers : ConversationResource_delete_commit(w)

SpecIntegrity == Init /\ [][NextIntegrity]_vars

----------------------------------------------------------------------------
(* The properties.  Each is stated of the handler's result in the current  *)
(* state, for every request of the input sets, so it is checked in every   *)
(* reachable state.                                                        *)

\* C1: a create-agent request whose name is the name of an existing agent
\* returns 409 and leaves the agent rows and the log rows as they were.
C1_DuplicateNameRefused ==
    \A data \in AgentDatas :
        ("name" \in DOMAIN data /\ \E a \in agents : a.name = data.name)
        => LET r == AgentList_post(data)
           IN  /\ r.code = 409
               /\ r.st.agents = agents
               /\ r.st.logs = logs

\* C1's case: an agent exists, it has its log, and a request with its name
\* and an existing model is answered 409.
C1_Witness ==
    \E a \in agents :
        /\ \E l \in logs : l.agent_id = a.id
        /\ Has(models, 1)
        /\ AgentList_post([name |-> a.name, model_id |-> 1]).code = 409

\* C2: a create-agent request with a fresh name and no model_id returns 201
\* and adds one agent row, of status 'inactive'.
C2_CreateWithoutModelId ==
    \A data \in AgentDatas :
        (/\ "name" \in DOMAIN data
         /\ "model_id" \notin DOMAIN data
         /\ ~\E a \in agents : a.name = data.name)
        => LET r == AgentList_post(data)
           IN  /\ r.code = 201
               /\ \E a \in r.st.agents :
                      /\ a \notin agents
                      /\ r.st.agents = agents \cup {a}
                      /\ a.status = "inactive"

\* The answer the spec gives for an id with no row: 404, nothing changed.
NotFoundAnswer(r) == r.code = 404 /\ r.st = State

\* C3: for an agent id with no agent row, get, update, delete, start, pause,
\* stop, logs and chat each return 404 and change no row.
C3_UnknownAgent404 ==
    \A id \in PathIds :
        (~\E a \in agents : a.id = id)
        => /\ NotFoundAnswer(AgentResource_get(id))
           /\ \A data \in AgentUpdates :
                  NotFoundAnswer(AgentResource_put(id, data))
           /\ NotFoundAnswer(AgentResource_delete(id))
           /\ NotFoundAnswer(AgentStart_post(id))
           /\ NotFoundAnswer(AgentPause_post(id))
           /\ NotFoundAnswer(AgentStop_post(id))
           /\ NotFoundAnswer(AgentLogs_get(id))
           /\ \A data \in ChatDatas, up \in Upstreams, reply \in Replies :
                  NotFoundAnswer(AgentChat_post(id, data, up, reply))

\* C4: once delete(agent id) has returned its confirmation, no log row and
\* no conversation row has that agent_id, and no message row has the
\* conversation_id of a conversation that belonged to the agent.
C4_DeleteLeavesNoOrphans ==
    \A id \in PathIds :
        LET r == AgentResource_delete(id)
            owned == {c.id : c \in {x \in conversations : x.agent_id = id}}
        IN  r.code = 200
            => /\ ~\E l \in r.st.logs : l.agent_id = id
               /\ ~\E c \in r.st.conversations : c.agent_id = id
               /\ ~\E m \in r.st.messages : m.conversation_id \in owned
               /\ ~\E a \in r.st.agents : a.id = id

\* C4's case: an agent with a log, a conversation and a message in it, whose
\* delete is confirmed.
C4_Witness ==
    \E a \in agents :
        /\ \E l \in logs : l.agent_id = a.id
        /\ \E c \in conversations :
               /\ c.agent_id = a.id
               /\ \E m \in messages : m.conversation_id = c.id
        /\ AgentResource_delete(a.id).code = 200

\* What C5 says of one status route: 200, the status set, one more log row
\* of the agent.
StatusActionDone(id, r, status) ==
    /\ r.code = 200
    /\ \E a \in r.st.agents : a.id = id /\ a.status = status
    /\ Cardinality({l \in r.st.logs : l.agent_id = id})
         = Cardinality({l \in logs : l.agent_id = id}) + 1

\* C5: for an existing agent, whatever its status, start, pause and stop
\* return 200, set the status to running, paused, stopped, and add exactly
\* one log row of that agent.
C5_StatusActions ==
    \A id \in PathIds :
        (\E a \in agents : a.id = id)
        => /\ StatusActionDone(id, AgentStart_post(id), "running")
           /\ StatusActionDone(id, AgentPause_post(id), "paused")
           /\ StatusActionDone(id, AgentStop_post(id), "stopped")

\* C5's case: pause has acted on an agent (it is paused and its log says
\* so), and start on it now returns 200.
C5_Witness ==
    \E a \in agents :
        /\ a.status = "paused"
        /\ \E l \in logs : l.agent_id = a.id /\ l.message = <<"Agent paused">>
        /\ AgentStart_post(a.id).code = 200

\* C6: a chat call with no conversation_id whose completion call succeeds
\* adds exactly one conversation row, of that agent and user, and exactly
\* two message rows in it, a user message and then an assistant message,
\* and returns that conversation's id.
C6_NewConversationChat ==
    \A id \in PathIds, data \in ChatDatas, reply \in Replies :
        (/\ \E a \in agents : a.id = id
         /\ WellFormedChat(data)
         /\ ("conversation_id" \in DOMAIN data => data.conversation_id = 0))
        => LET r == AgentChat_post(id, data, "ok", reply)
               new == r.st.messages \ messages
           IN  /\ r.code = 200
               /\ \E c \in r.st.conversations :
                      /\ c \notin conversations
                      /\ r.st.conversations = conversations \cup {c}
                      /\ c.agent_id = id
                      /\ c.user_id = data.user_id
                      /\ r.body.conversation_id = c.id
                      /\ \A m \in new : m.conversation_id = c.id
               /\ messages \subseteq r.st.messages
               /\ Cardinality(new) = 2
               /\ \E u \in new, a \in new :
                      /\ u.role = "user" /\ u.content = data.message
                      /\ a.role = "assistant" /\ a.content = reply
                      /\ u.id < a.id
                      /\ u.timestamp < a.timestamp

\* C6's case: a chat has created a conversation that holds a user message
\* and an assistant message after it.
C6_Witness ==
    \E c \in conversations :
        /\ Cardinality({m \in messages : m.conversation_id = c.id}) = 2
        /\ \E u \in messages, a \in messages :
               /\ u.conversation_id = c.id /\ a.conversation_id = c.id
               /\ u.role = "user" /\ a.role = "assistant" /\ u.id < a.id
        /\ outbound.messages = <<[role |-> "user", content |-> c.title]>>

\* C7: deleting a model that an agent references returns 400 and leaves the
\* model rows and the agent rows unchanged; a model no agent references is
\* deleted.
C7_ModelDelete ==
    \A id \in PathIds :
        (\E m \in models : m.id = id)
        => LET r == ModelResource_delete(id)
           IN  IF \E a \in agents : a.model_id = id
               THEN /\ r.code = 400
                    /\ r.st.models = models
                    /\ r.st.agents = agents
               ELSE /\ r.code = 200
                    /\ ~\E m \in r.st.models : m.id = id

\* C7's case: a model with an agent, whose delete is refused.
C7_Witness ==
    \E m \in models :
        /\ \E a \in agents : a.model_id = m.id
        /\ ModelResource_delete(m.id).code = 400

\* The chat calls C8 is about: the agent exists, the body is well formed,
\* and its conversation_id names no conversation of that agent.
ForeignConversation(id, data) ==
    /\ \E a \in agents : a.id = id
    /\ WellFormedChat(data)
    /\ "conversation_id" \in DOMAIN data
    /\ data.conversation_id # 0
    /\ ~\E c \in conversations :
           c.id = data.conversation_id /\ c.agent_id = id

\* C8, as claimed: a chat call naming a conversation_id that does not exist,
\* or that belongs to another agent, returns 500 with the exception text.
C8_MissingConversation500 ==
    \A id \in PathIds, data \in ChatDatas, up \in Upstreams, reply \in Replies :
        ForeignConversation(id, data)
        => AgentChat_post(id, data, up, reply).code = 500

\* C8, amended: such a call returns 404 with the handler's own error text,
\* and changes nothing.
C8_MissingConversation404 ==
    \A id \in PathIds, data \in ChatDatas, up \in Upstreams, reply \in Replies :
        ForeignConversation(id, data)
        => LET r == AgentChat_post(id, data, up, reply)
           IN  /\ r.code = 404
               /\ r.body.error =
                      "Conversation not found or does not belong to this agent"
               /\ r.st = State

\* C8's case: a conversation of one agent is named in a chat call on another
\* agent, which is answered 404.
C8_Witness ==
    \E a \in agents, c \in conversations :
        /\ c.agent_id # a.id
        /\ \E data \in ChatDatas :
               /\ ForeignConversation(a.id, data)
               /\ data.conversation_id = c.id
               /\ AgentChat_post(a.id, data, "ok", <<"o", "k">>).code = 404

\* The last n elements of a sequence.
LastN(seq, n) ==
    SubSeq(seq, IF Len(seq) > n THEN Len(seq) - n + 1 ELSE 1, Len(seq))

\* C9: the message list a chat call sends to the completion API is the most
\* recent min(20, n) messages of the conversation, oldest first, so its
\* last element is the user message the call has just appended.
C9_RecentHistorySent ==
    \A id \in PathIds, data \in ChatDatas, reply \in Replies :
        (/\ \E a \in agents : a.id = id
         /\ WellFormedChat(data)
         /\ \/ "conversation_id" \notin DOMAIN data
            \/ data.conversation_id = 0
            \/ \E c \in conversations :
                   c.id = data.conversation_id /\ c.agent_id = id)
        => LET r == AgentChat_post(id, data, "APIConnectionError", reply)
               cid == IF "conversation_id" \in DOMAIN data
                         /\ data.conversation_id # 0
                      THEN data.conversation_id
                      ELSE CHOOSE i \in {c.id : c \in r.st.conversations} :
                               ~\E c \in conversations : c.id = i
               rows == OrderByTimestampAsc(
                           {m \in r.st.messages : m.conversation_id = cid})
               sent == r.st.outbound.messages
           IN  /\ sent = PromptOf(LastN(rows, HistoryLimit))
               /\ sent[Len(sent)] = [role |-> "user", content |-> data.message]

\* C10: every agent row's status is one of inactive, running, paused,
\* stopped.
C10_StatusEnumerated ==
    \A a \in agents : a.status \in AgentStatuses

\* s[:n], written out.
FirstChars(s, n) == [i \in 1..(IF Len(s) < n THEN Len(s) ELSE n) |-> s[i]]

\* C12 as stated: the conversation a chat call creates has for title the
\* first 50 characters of the user's message, whatever the message's length.
C12_TitleIsFirst50 ==
    \A data \in TitleChatDatas, up \in Upstreams, reply \in Replies :
        LET r == AgentChat_post(1, data, up, reply)
        IN  \A c \in r.st.conversations \ conversations :
                c.title = FirstChars(data.message, 50)

\* C12, amended: the conversation a chat call creates has for title the
\* whole message when the message has at most 50 characters, and otherwise
\* its first 50 characters followed by "..." (53 characters).
C12_TitleWithEllipsis ==
    \A data \in TitleChatDatas, up \in Upstreams, reply \in Replies :
        LET r == AgentChat_post(1, data, up, reply)
        IN  \A c \in r.st.conversations \ conversations :
                c.title = IF Len(data.message) <= 50
                          THEN data.message
                          ELSE FirstChars(data.message, 50) \o <<".", ".", ".">>

\* A chat call has created a conversation from a message of more than 50
\* characters: its title has 53.
C12_Witness ==
    \E c \in conversations, m \in messages :
        /\ m.conversation_id = c.id /\ m.role = "user"
        /\ Len(m.content) > 50
        /\ Len(c.title) = 53

\* n = ceil(a / b): the least n with n * b >= a.
IsCeil(n, a, b) == n >= 0 /\ n * b >= a /\ (n = 0 \/ (n - 1) * b < a)

\* The envelope `e` is the one of page `page` of `total` rows, `per_page` a
\* page.
EnvelopeOf(e, total, page, per_page) ==
    /\ e.total = total
    /\ e.current_page = page
    /\ IsCeil(e.pages, total, per_page)
    /\ e.has_prev <=> e.current_page > 1
    /\ e.has_next <=> e.current_page < e.pages

C14_LogExactlyOnStatusChange ==
    \A id \in PathIds, data \in AgentUpdates :
        Has(agents, id) =>
            LET r == AgentResource_put(id, data)
                before == Row(agents, id).status
                after == Row(r.st.agents, id).status
            IN  IF after # before
                THEN \E l \in r.st.logs \ logs :
                         /\ r.st.logs = logs \cup {l}
                         /\ l.agent_id = id
                         /\ l.message = <<"Agent status changed to: ", after>>
                ELSE r.st.logs = logs

\* C16: when the completion call of a chat with no conversation_id fails, the
\* response is 500 and the state keeps what was committed before the call:
\* the new Conversation row and the user Message row remain, and no assistant
\* Message and no AgentLog row is added.
C16_FailedChatKeepsCommitted ==
    \A id \in PathIds, data \in ChatDatas, up \in Upstreams \ {"ok"},
       reply \in Replies :
        (/\ \E a \in agents : a.id = id
         /\ WellFormedChat(data)
         /\ ("conversation_id" \in DOMAIN data => data.conversation_id = 0))
        => LET r == AgentChat_post(id, data, up, reply)
           IN  /\ r.code = 500
               /\ \E c \in r.st.conversations, m \in r.st.messages :
                      /\ c \notin conversations
                      /\ r.st.conversations = conversations \cup {c}
                      /\ c.agent_id = id
                      /\ m \notin messages
                      /\ r.st.messages = messages \cup {m}
                      /\ m.conversation_id = c.id
                      /\ m.role = "user"
                      /\ m.content = data.message
               /\ r.st.logs = logs
               /\ r.st.agents = agents
               /\ r.st.models = models

\* A chat call has failed at the completion call: its conversation holds the
\* user's message alone, a call went out, and no chat was logged.
C16_Witness ==
    /\ outbound # <<>>
    /\ \E c \in conversations :
           \E m \in messages :
               /\ m.conversation_id = c.id /\ m.role = "user"
               /\ \A o \in messages : o.conversation_id = c.id => o = m
    /\ \A l \in logs : l.message[1] # "Chat with user "

\* What the client receives from the model routes: the status code and the
\* marshalled body.
ModelWire(r) == <<r.code, MarshalModel(r.body)>>

ModelsWire(r) == <<r.code, MarshalModels(r.body)>>

\* The step changes the api_key of one model and nothing else.
OnlyApiKeyChanges ==
    /\ \E m \in models, k \in CatalogueKeys :
           /\ m.api_key # k
           /\ models' = (models \ {m}) \cup {[m EXCEPT !.api_key = k]}
    /\ UNCHANGED <<agents, logs, conversations, messages, openai, outbound,
                   threads>>

\* C20: a Model's api_key is never disclosed by the model routes: in two
\* states that differ only in the api_key of a Model, create, get, list and
\* update model answer every request with the same code and the same body.
C20_ApiKeyNotDisclosed ==
    [][OnlyApiKeyChanges =>
        /\ \A data \in CatalogueDatas :
               ModelWire(ModelList_post(data))' = ModelWire(ModelList_post(data))
        /\ \A id \in PathIds :
               ModelWire(ModelResource_get(id))' = ModelWire(ModelResource_get(id))
        /\ \A args \in PageArgs :
               ModelsWire(ModelList_get(args))' = ModelsWire(ModelList_get(args))
        /\ \A id \in PathIds, data \in ModelUpdates :
               ModelWire(ModelResource_put(id, data))'
                   = ModelWire(ModelResource_put(id, data))]_vars

\* Two models hold different keys, and the get route answers for both with
\* a null api_key.
C20_Witness ==
    \E m1 \in models, m2 \in models :
        /\ m1.api_key = "sk-1" /\ m2.api_key = "sk-2"
        /\ ModelWire(ModelResource_get(m1.id))[1] = 200
        /\ ModelWire(ModelResource_get(m1.id))[2].api_key = Null
        /\ ModelWire(ModelResource_get(m2.id))[2].api_key = Null

\* C11: in every reachable state no two Agent rows have the same name, for
\* any interleaving of create-agent and rename requests, two creates of the
\* same name at once and a rename onto an existing name included.
C11_AgentNamesUnique ==
    \A a \in agents, b \in agents : a.name = b.name => a = b

\* Two requests are past their checks and about to commit the same name:
\* two creates, two renames, or one of each.
C11_Witness ==
    /\ threads[1].pc \in {"agent_commit", "put_commit"}
    /\ threads[2].pc \in {"agent_commit", "put_commit"}
    /\ threads[1].data.name = threads[2].data.name
    /\ agents # {}

\* C15: when two chat calls for agents with different Models run at the same
\* time, each completion request is sent with the base_url and the api_key
\* of its own agent's Model, in every interleaving.
C15_OwnModelConfig ==
    [][\A w \in Workers :
          (threads[w].pc = "call" /\ threads'[w].pc # "call")
          => LET model == Row(models, threads[w].model_id)
             IN  /\ outbound'.api_base = model.base_url
                 /\ outbound'.api_key = KeyOrPlaceholder(model.api_key)]_vars

\* The messages of a conversation, in insertion order.
Inserted(conversation_id) == OrderById(ConversationMessages(conversation_id))

\* C19: in every conversation, in insertion order, every assistant Message
\* is immediately preceded by a user Message, for any sequence and any
\* interleaving of chat calls on the same conversation_id, failed calls
\* included.
C19_AssistantFollowsUser ==
    \A c \in conversations :
        LET ms == Inserted(c.id)
        IN  \A i \in 1..Len(ms) :
                ms[i].role = "assistant" => i > 1 /\ ms[i - 1].role = "user"

\* C17: referential integrity holds in every reachable state, under any
\* interleaving of requests at their commit points: every Agent's model_id
\* names an existing Model, every Conversation and every AgentLog names an
\* existing Agent, every Message names an existing Conversation.
C17_ReferentialIntegrity ==
    /\ \A a \in agents : \E m \in models : m.id = a.model_id
    /\ \A c \in conversations : \E a \in agents : a.id = c.agent_id
    /\ \A l \in logs : \E a \in agents : a.id = l.agent_id
    /\ \A m \in messages : \E c \in conversations : c.id = m.conversation_id

\* C18: create-agent is all-or-nothing with respect to its two writes: an
\* Agent row that has been added has an 'Agent registered' AgentLog entry
\* once the request that added it has answered; no failure between the
\* agent commit and the log commit leaves an agent without its log.
C18_CreateAllOrNothing ==
    \A a \in agents :
        \/ \E l \in logs :
               l.agent_id = a.id /\ l.message[1] = "Agent registered: "
        \/ \E w \in Workers :
               threads[w].pc = "log_commit" /\ threads[w].agent_id = a.id

====
